---- MODULE Spec2Model ----
(***************************************************************************)
(* Model of src/app/worker.ts: the web worker that ingests a PDF into an   *)
(* in-memory vector store and answers chat questions by retrieval and a    *)
(* streamed model answer.                                                  *)
(*                                                                         *)
(* One handler instance exists per dispatched "message" event.  A handler  *)
(* runs synchronously up to its next await; every action below is one such *)
(* run-to-suspension step, so handlers of different messages interleave    *)
(* exactly at the awaits of the source.  External services (pdf.js, the    *)
(* text splitter, the vector store, the Ollama model) return or fail       *)
(* nondeterministically.                                                   *)
(*                                                                         *)
(* A JavaScript string that the code splits on "," is held as the sequence *)
(* of its comma-separated parts: <<"">> is the empty string.               *)
(***************************************************************************)
EXTENDS Integers, Sequences, FiniteSets, TLC

\* ---------------------------------------------------------------- bounds
MaxMsgs == 2
MaxFrags == 2
MaxHits == 2

\* ------------------------------------------------------- program constants
chunkSize == 500
chunkOverlap == 50

VARIABLES
  inbox,        \* message events posted by the host, not yet dispatched
  posted,       \* number of messages the host has posted
  started,      \* number of listener invocations so far
  event,        \* event[h]: the message event handler h was invoked with
  pc,           \* pc[h]: the await handler h is suspended at
  frame,        \* frame[h]: the local variables of handler h
  vectorstore,  \* the documents of the shared VoyVectorStore, in insertion order
  outbox,       \* the events posted with self.postMessage, in order
  trace         \* trace[h]: external calls made by handler h (history)

vars == <<inbox, posted, started, event, pc, frame, vectorstore, outbox, trace>>

Handlers == 1..MaxMsgs

\* ------------------------------------------------------------ input data
EmptyString == <<"">>
PdfA == <<"data:application/pdf;base64", "A">>
PdfB == <<"data:application/pdf;base64", "B">>
NoComma == <<"x">>

Human(c) == [role |-> "human", content |-> c]
Ai(c) == [role |-> "ai", content |-> c]

Messages ==
  { [pdf |-> PdfA],
    [pdf |-> PdfB],
    [pdf |-> NoComma],
    [pdf |-> EmptyString],
    [pdf |-> EmptyString, messages |-> <<Human("q")>>],
    [pdf |-> PdfB, messages |-> <<Human("q")>>],
    [messages |-> <<>>],
    [messages |-> <<Human("q")>>],
    [messages |-> <<Human("p"), Ai("a"), Human("q")>>] }

\* What pdf.js makes of the decoded payload: the text items of each page (a
\* page may have no item, and an item may have an empty str).
PdfPages(payload) ==
  IF payload = "A" THEN << <<"a", "b">>, <<>>, <<"d">> >> ELSE << <<"c">>, <<"">> >>

Fragments == {"", "x", "y"}
RephraseOutputs == {"q", "r"}

\* ------------------------------------------------------------- helpers
RECURSIVE Join(_, _)
Join(parts, sep) ==
  IF parts = <<>> THEN ""
  ELSE IF Len(parts) = 1 THEN parts[1]
  ELSE parts[1] \o sep \o Join(Tail(parts), sep)

Has(d, field) == field \in DOMAIN d

\* Variant of Truthy: the test is for the presence of the field.
TruthyPresent(d) == Has(d, "pdf")

\* JavaScript truthiness of event.data.pdf: absent and "" are falsy.
Truthy(d) == Has(d, "pdf") /\ d.pdf # EmptyString

Quote(s) == "\"" \o s \o "\""
StringifyMessage(m) ==
  "{\"role\":" \o Quote(m.role) \o ",\"content\":" \o Quote(m.content) \o "}"
Stringify(d) ==
  LET p == IF Has(d, "pdf") THEN <<"\"pdf\":" \o Quote(Join(d.pdf, ","))>> ELSE <<>>
      m == IF Has(d, "messages")
           THEN <<"\"messages\":[" \o Join([k \in 1..Len(d.messages) |-> StringifyMessage(d.messages[k])], ",") \o "]">>
           ELSE <<>>
  IN "{" \o Join(p \o m, ",") \o "}"

\* Variant of formatDoc: the tag carries the document's content only.
formatDocUnnumbered(doc, k) == "<doc>" \o doc.pageContent \o "</doc>"

formatDoc(doc, k) == "<doc id='" \o ToString(k) \o "'>" \o doc.pageContent \o "</doc>"
formatDocs(ds) == Join([k \in 1..Len(ds) |-> formatDoc(ds[k], k - 1)], "\n")

\* ---------------------------------------------------------------- state
NoFrame ==
  [ parsedPdf |-> <<>>, meta |-> "unset", i |-> 0, documents |-> <<>>, docs |-> <<>>,
    text |-> "", chatHistory |-> <<>>, formattedDocs |-> "" ]

NoTrace ==
  [ flow |-> "none", parse |-> 0, insert |-> 0, inserted |-> <<>>,
    rephraseInput |-> <<>>, rephraseOutput |-> <<>>, retrieverInput |-> <<>>,
    retrieved |-> <<>>, storeAtRetrieval |-> <<>>, streamInput |-> <<>>,
    fragments |-> <<>>, failedAt |-> 0, failedIn |-> "none" ]

Init ==
  /\ inbox = <<>>
  /\ posted = 0
  /\ started = 0
  /\ event = [h \in Handlers |-> [seq |-> 0, data |-> [messages |-> <<>>]]]
  /\ pc = [h \in Handlers |-> "idle"]
  /\ frame = [h \in Handlers |-> NoFrame]
  /\ vectorstore = <<>>
  /\ outbox = <<>>
  /\ trace = [h \in Handlers |-> NoTrace]

Post(h, type, data, line) ==
  Append(outbox, [type |-> type, data |-> data, h |-> h, line |-> line])

\* The host page posts a message to the worker.
HostPost ==
  /\ posted < MaxMsgs
  /\ \E d \in Messages :
       inbox' = Append(inbox, [seq |-> posted + 1, data |-> d])
  /\ posted' = posted + 1
  /\ UNCHANGED <<started, event, pc, frame, vectorstore, outbox, trace>>

\* Variant of Fail: the rejection is swallowed and the listener carries on.
FailSwallowed(h) ==
  /\ pc' = [pc EXCEPT ![h] = "returning"]
  /\ trace' = [trace EXCEPT ![h].failedAt = Len(outbox), ![h].failedIn = pc[h]]

\* An awaited call rejects: the handler's promise rejects and it never resumes.
Fail(h) ==
  /\ pc' = [pc EXCEPT ![h] = "failed"]
  /\ trace' = [trace EXCEPT ![h].failedAt = Len(outbox), ![h].failedIn = pc[h]]

\* ------------------------------------------------------ text splitter
\* RecursiveCharacterTextSplitter({chunkSize, chunkOverlap}): a text that fits
\* in one chunk is kept whole, a longer one is cut into overlapping windows.
RECURSIVE SplitText(_)
SplitText(text) ==
  IF Len(text) <= chunkSize THEN <<text>>
  ELSE <<SubSeq(text, 1, chunkSize)>>
         \o SplitText(SubSeq(text, chunkSize - chunkOverlap + 1, Len(text)))

RECURSIVE splitDocuments(_)
splitDocuments(documents) ==
  IF documents = <<>> THEN <<>>
  ELSE LET d == Head(documents)
       IN [k \in 1..Len(SplitText(d.pageContent)) |->
             [d EXCEPT !.pageContent = SplitText(d.pageContent)[k]]]
          \o splitDocuments(Tail(documents))

\* Variant of PageDocument: the loop index is taken as counting from 0.
PageDocumentZeroBased(text, meta, numPages, pageNumber) ==
  [ pageContent |-> text,
    metadata |-> [ pdf |-> [ version |-> "1.10.100",
                             info |-> IF meta = "null" THEN "undefined" ELSE "info",
                             metadata |-> IF meta = "null" THEN "undefined" ELSE "metadata",
                             totalPages |-> numPages ],
                   loc |-> [ pageNumber |-> pageNumber - 1 ] ] ]

\* new Document({...}) of the page loop.
PageDocument(text, meta, numPages, pageNumber) ==
  [ pageContent |-> text,
    metadata |-> [ pdf |-> [ version |-> "1.10.100",
                             info |-> IF meta = "null" THEN "undefined" ELSE "info",
                             metadata |-> IF meta = "null" THEN "undefined" ELSE "metadata",
                             totalPages |-> numPages ],
                   loc |-> [ pageNumber |-> pageNumber ] ] ]

\* ------------------------------------------------------------ embedPDF
\* Entry of embedPDF up to the await of getDocument: atob of a data URL that
\* has no "," part throws before pdf.js is called.
embedPDFStart(h, pdfDataUrl) ==
  IF Len(pdfDataUrl) < 2
  THEN /\ pc' = [pc EXCEPT ![h] = "failed"]
       /\ trace' = [trace EXCEPT ![h].flow = "embedPDF", ![h].failedAt = Len(outbox'),
                                 ![h].failedIn = "entry"]
       /\ UNCHANGED frame
  ELSE /\ pc' = [pc EXCEPT ![h] = "getDocument"]
       /\ trace' = [trace EXCEPT ![h].flow = "embedPDF", ![h].parse = @ + 1]
       /\ UNCHANGED frame

\* Head of the page loop: the next page is fetched, or the loop is over and
\* the documents go to the splitter.
LoopHead(h, i) ==
  IF i <= Len(frame'[h].parsedPdf) THEN "getPage" ELSE "splitDocuments"

GetDocumentReturn(h) ==
  /\ pc[h] = "getDocument"
  /\ \/ /\ frame' = [frame EXCEPT ![h].parsedPdf = PdfPages(event[h].data.pdf[2])]
        /\ pc' = [pc EXCEPT ![h] = "getMetadata"]
        /\ UNCHANGED trace
     \/ Fail(h) /\ UNCHANGED frame
  /\ UNCHANGED <<inbox, posted, started, event, vectorstore, outbox>>

\* Variant of GetMetadataReturn: a rejection of getMetadata is not caught.
GetMetadataReturnUncaught(h) ==
  /\ pc[h] = "getMetadata"
  /\ \/ /\ frame' = [frame EXCEPT ![h].meta = "meta", ![h].i = 1]
        /\ pc' = [pc EXCEPT ![h] = LoopHead(h, 1)]
        /\ UNCHANGED trace
     \/ Fail(h) /\ UNCHANGED frame
  /\ UNCHANGED <<inbox, posted, started, event, vectorstore, outbox>>

\* getMetadata().catch(() => null), then the first test of the page loop.
GetMetadataReturn(h) ==
  /\ pc[h] = "getMetadata"
  /\ \E m \in {"meta", "null"} :
       frame' = [frame EXCEPT ![h].meta = m, ![h].i = 1]
  /\ pc' = [pc EXCEPT ![h] = LoopHead(h, 1)]
  /\ UNCHANGED <<inbox, posted, started, event, vectorstore, outbox, trace>>

GetPageReturn(h) ==
  /\ pc[h] = "getPage"
  /\ \/ pc' = [pc EXCEPT ![h] = "getTextContent"] /\ UNCHANGED trace
     \/ Fail(h)
  /\ UNCHANGED <<inbox, posted, started, event, frame, vectorstore, outbox>>

\* Variant of GetTextContentReturn: each page document is stored as soon as
\* it is built.
GetTextContentReturnStores(h) ==
  /\ pc[h] = "getTextContent"
  /\ \/ LET f == frame[h]
            items == f.parsedPdf[f.i]
            document == PageDocument(Join(items, "\n"), f.meta, Len(f.parsedPdf), f.i)
        IN /\ frame' = [frame EXCEPT
                          ![h].documents = IF Len(items) = 0 THEN @ ELSE Append(@, document),
                          ![h].i = @ + 1]
           /\ vectorstore' = IF Len(items) = 0 THEN vectorstore
                             ELSE Append(vectorstore, document)
           /\ pc' = [pc EXCEPT ![h] = LoopHead(h, f.i + 1)]
           /\ UNCHANGED trace
     \/ Fail(h) /\ UNCHANGED <<frame, vectorstore>>
  /\ UNCHANGED <<inbox, posted, started, event, outbox>>

GetTextContentReturn(h) ==
  /\ pc[h] = "getTextContent"
  /\ \/ LET f == frame[h]
            items == f.parsedPdf[f.i]
            document == PageDocument(Join(items, "\n"), f.meta, Len(f.parsedPdf), f.i)
        IN /\ frame' = [frame EXCEPT
                          ![h].documents = IF Len(items) = 0 THEN @ ELSE Append(@, document),
                          ![h].i = @ + 1]
           /\ pc' = [pc EXCEPT ![h] = LoopHead(h, f.i + 1)]
           /\ UNCHANGED trace
     \/ Fail(h) /\ UNCHANGED frame
  /\ UNCHANGED <<inbox, posted, started, event, vectorstore, outbox>>

\* The splitter returns: the chunk list is logged and addDocuments is called.
SplitDocumentsReturn(h) ==
  /\ pc[h] = "splitDocuments"
  /\ \/ LET docs == splitDocuments(frame[h].documents)
        IN /\ frame' = [frame EXCEPT ![h].docs = docs]
           /\ outbox' = Post(h, "log", docs, 126)
           /\ pc' = [pc EXCEPT ![h] = "addDocuments"]
           /\ trace' = [trace EXCEPT ![h].insert = @ + 1]
     \/ Fail(h) /\ UNCHANGED <<frame, outbox>>
  /\ UNCHANGED <<inbox, posted, started, event, vectorstore>>

\* Variant of AddDocumentsReturn: the store is rebuilt from the new chunks.
AddDocumentsReturnFresh(h) ==
  /\ pc[h] = "addDocuments"
  /\ \/ /\ vectorstore' = frame[h].docs
        /\ pc' = [pc EXCEPT ![h] = "returning"]
        /\ trace' = [trace EXCEPT ![h].inserted = Append(@, 0)]
     \/ Fail(h) /\ UNCHANGED vectorstore
  /\ UNCHANGED <<inbox, posted, started, event, frame, outbox>>

\* vectorstore.addDocuments resolves: the chunks are in the store.
AddDocumentsReturn(h) ==
  /\ pc[h] = "addDocuments"
  /\ \/ /\ vectorstore' = vectorstore \o frame[h].docs
        /\ pc' = [pc EXCEPT ![h] = "returning"]
        /\ trace' = [trace EXCEPT ![h].inserted = Append(@, Len(vectorstore))]
     \/ Fail(h) /\ UNCHANGED vectorstore
  /\ UNCHANGED <<inbox, posted, started, event, frame, outbox>>

\* ----------------------------------------------------- queryVectorStore
\* chatHistory.map((message) => `${message.role}: ${message.content}`).join('\n')
HistoryText(chatHistory) ==
  LET Line(m) == m.role \o ": " \o m.content
  IN Join([k \in 1..Len(chatHistory) |-> Line(chatHistory[k])], "\n")

\* chatHistory.map(... new HumanMessage(...) / new AIMessage(...))
HistoryMessages(chatHistory) ==
  LET Typed(m) == [ type |-> IF m.role = "human" THEN "HumanMessage" ELSE "AIMessage",
                    content |-> m.content ]
  IN [k \in 1..Len(chatHistory) |-> Typed(chatHistory[k])]

\* Variant of Rephrases: the chain with the rephrasing step is always built.
RephrasesAlways(chatHistory) == TRUE

\* createRetrievalChain: the chain starts with the rephrasing prompt and model
\* call exactly when there is history.
Rephrases(chatHistory) == Len(chatHistory) # 0

\* Variant of StandaloneQuestion: the retriever gets the raw question.
StandaloneQuestionRaw(input, output) == input.question

\* The text the retriever step receives in the chain with history: the parsed
\* output of the model call that precedes it.
StandaloneQuestion(input, output) == output

\* Variant of Searchable: chunks are visible from the call of addDocuments on.
RECURSIVE Pending(_)
Pending(h) ==
  IF h > MaxMsgs THEN <<>>
  ELSE (IF pc[h] = "addDocuments" THEN frame[h].docs ELSE <<>>) \o Pending(h + 1)
SearchableEarly == vectorstore \o Pending(1)

\* The documents a similarity search can see: those in the store.
Searchable == vectorstore

\* The results a similarity search may return: distinct entries of the store,
\* in any order of relevance.
Hits(n) ==
  LET m == IF n < MaxHits THEN n ELSE MaxHits
  IN UNION { { s \in [1..k -> 1..n] : \A a, b \in 1..k : a # b => s[a] # s[b] } : k \in 0..m }

\* Variant of queryVectorStoreStart: without a question the function returns
\* at once instead of throwing.
queryVectorStoreStartLenient(h, d) ==
  IF ~Has(d, "messages") \/ Len(d.messages) = 0
  THEN /\ pc' = [pc EXCEPT ![h] = "returning"]
       /\ trace' = [trace EXCEPT ![h].flow = "queryVectorStore"]
       /\ UNCHANGED frame
  ELSE LET messages == d.messages
           text == messages[Len(messages)].content
           chatHistory == SubSeq(messages, 1, Len(messages) - 1)
           input == [question |-> text, chat_history |-> HistoryText(chatHistory)]
       IN /\ frame' = [frame EXCEPT ![h].text = text, ![h].chatHistory = chatHistory]
          /\ IF Rephrases(chatHistory)
             THEN /\ pc' = [pc EXCEPT ![h] = "rephrase"]
                  /\ trace' = [trace EXCEPT ![h].flow = "queryVectorStore",
                                            ![h].rephraseInput = Append(@, input)]
             ELSE /\ pc' = [pc EXCEPT ![h] = "retrieve"]
                  /\ trace' = [trace EXCEPT ![h].flow = "queryVectorStore",
                                            ![h].retrieverInput = Append(@, input.question)]

\* Entry of queryVectorStore up to the first await inside retrievalChain.invoke.
queryVectorStoreStart(h, d) ==
  IF ~Has(d, "messages") \/ Len(d.messages) = 0
  THEN /\ pc' = [pc EXCEPT ![h] = "failed"]
       /\ trace' = [trace EXCEPT ![h].flow = "queryVectorStore", ![h].failedAt = Len(outbox'),
                                 ![h].failedIn = "entry"]
       /\ UNCHANGED frame
  ELSE LET messages == d.messages
           text == messages[Len(messages)].content
           chatHistory == SubSeq(messages, 1, Len(messages) - 1)
           input == [question |-> text, chat_history |-> HistoryText(chatHistory)]
       IN /\ frame' = [frame EXCEPT ![h].text = text, ![h].chatHistory = chatHistory]
          /\ IF Rephrases(chatHistory)
             THEN /\ pc' = [pc EXCEPT ![h] = "rephrase"]
                  /\ trace' = [trace EXCEPT ![h].flow = "queryVectorStore",
                                            ![h].rephraseInput = Append(@, input)]
             ELSE /\ pc' = [pc EXCEPT ![h] = "retrieve"]
                  /\ trace' = [trace EXCEPT ![h].flow = "queryVectorStore",
                                            ![h].retrieverInput = Append(@, input.question)]

\* Variant of RephraseReturn: the response stream is opened without waiting
\* for the retriever.
RephraseReturnStreams(h) ==
  /\ pc[h] = "rephrase"
  /\ \/ \E output \in RephraseOutputs :
          LET input == [ question |-> frame[h].text,
                         chat_history |-> HistoryMessages(frame[h].chatHistory),
                         context |-> frame[h].formattedDocs ]
          IN /\ trace' = [trace EXCEPT
                            ![h].rephraseOutput = Append(@, output),
                            ![h].streamInput = Append(@, input)]
             /\ pc' = [pc EXCEPT ![h] = "openStream"]
     \/ Fail(h)
  /\ UNCHANGED <<inbox, posted, started, event, frame, vectorstore, outbox>>

\* The rephrasing model call returns; its parsed output goes to the retriever.
RephraseReturn(h) ==
  /\ pc[h] = "rephrase"
  /\ \/ \E output \in RephraseOutputs :
          LET input == trace[h].rephraseInput[1]
          IN /\ trace' = [trace EXCEPT
                            ![h].rephraseOutput = Append(@, output),
                            ![h].retrieverInput = Append(@, StandaloneQuestion(input, output))]
             /\ pc' = [pc EXCEPT ![h] = "retrieve"]
     \/ Fail(h)
  /\ UNCHANGED <<inbox, posted, started, event, frame, vectorstore, outbox>>

\* The retriever returns: formatDocs ends the retrieval chain, and the
\* streaming call of the response chain is made.
RetrieveReturn(h) ==
  /\ pc[h] = "retrieve"
  /\ \/ \E hits \in Hits(Len(Searchable)) :
          LET found == [k \in 1..Len(hits) |-> Searchable[hits[k]]]
              formattedDocs == formatDocs(found)
              input == [ question |-> frame[h].text,
                         chat_history |-> HistoryMessages(frame[h].chatHistory),
                         context |-> formattedDocs ]
          IN /\ frame' = [frame EXCEPT ![h].formattedDocs = formattedDocs]
             /\ trace' = [trace EXCEPT
                            ![h].retrieved = Append(@, found),
                            ![h].storeAtRetrieval = vectorstore,
                            ![h].streamInput = Append(@, input)]
             /\ pc' = [pc EXCEPT ![h] = "openStream"]
     \/ Fail(h) /\ UNCHANGED frame
  /\ UNCHANGED <<inbox, posted, started, event, vectorstore, outbox>>

\* responseChain.stream(...) resolves to the stream.
StreamOpenReturn(h) ==
  /\ pc[h] = "openStream"
  /\ \/ pc' = [pc EXCEPT ![h] = "streaming"] /\ UNCHANGED trace
     \/ Fail(h)
  /\ UNCHANGED <<inbox, posted, started, event, frame, vectorstore, outbox>>

\* Variants of Relay: without the test of the fragment, and holding fragments back.
RelayUnfiltered(h, chunk) == Post(h, "chunk", chunk, 164)
RelayBuffered(h, chunk) == outbox

\* The events one fragment of the stream makes the loop body post.
Relay(h, chunk) ==
  IF chunk # "" THEN Post(h, "chunk", chunk, 164) ELSE outbox

\* One turn of the for-await loop: the stream yields a fragment.
StreamYield(h) ==
  /\ pc[h] = "streaming"
  /\ Len(trace[h].fragments) < MaxFrags
  /\ \E chunk \in Fragments :
       /\ trace' = [trace EXCEPT ![h].fragments = Append(@, chunk)]
       /\ outbox' = Relay(h, chunk)
  /\ UNCHANGED <<inbox, posted, started, event, pc, frame, vectorstore>>

\* The stream ends: queryVectorStore posts "complete" and returns.
StreamEnd(h) ==
  /\ pc[h] = "streaming"
  /\ outbox' = Post(h, "complete", "OK", 171)
  /\ pc' = [pc EXCEPT ![h] = "returning"]
  /\ UNCHANGED <<inbox, posted, started, event, frame, vectorstore, trace>>

\* The stream throws during iteration.
StreamFail(h) ==
  /\ pc[h] = "streaming"
  /\ Fail(h)
  /\ UNCHANGED <<inbox, posted, started, event, frame, vectorstore, outbox>>

\* ------------------------------------------------------ message listener
\* Variant of Deliverable: any waiting message may be delivered next.
DeliverableAny == 1..Len(inbox)

\* The messages the event loop may hand to the listener next: the oldest.
Deliverable == IF inbox = <<>> THEN {} ELSE {1}

\* Variant of Dispatch: the "Received" log is posted once the flow has been
\* entered, so not when the entry throws.
DispatchLogsLate ==
  \E k \in Deliverable :
    LET h == started + 1
        e == inbox[k]
    IN /\ started' = h
       /\ inbox' = [j \in 1..(Len(inbox) - 1) |-> IF j < k THEN inbox[j] ELSE inbox[j + 1]]
       /\ event' = [event EXCEPT ![h] = e]
       /\ outbox' = IF (Truthy(e.data) /\ Len(e.data.pdf) < 2)
                       \/ (~Truthy(e.data) /\ ~Has(e.data, "messages"))
                    THEN outbox
                    ELSE Post(h, "log", "Received: " \o Stringify(e.data), 179)
       /\ IF Truthy(e.data)
          THEN embedPDFStart(h, e.data.pdf)
          ELSE queryVectorStoreStart(h, e.data)
       /\ UNCHANGED <<posted, vectorstore>>

\* The listener's run from its invocation to its first await.
Dispatch ==
  \E k \in Deliverable :
    LET h == started + 1
        e == inbox[k]
    IN /\ started' = h
       /\ inbox' = [j \in 1..(Len(inbox) - 1) |-> IF j < k THEN inbox[j] ELSE inbox[j + 1]]
       /\ event' = [event EXCEPT ![h] = e]
       /\ outbox' = Post(h, "log", "Received: " \o Stringify(e.data), 179)
       /\ IF Truthy(e.data)
          THEN embedPDFStart(h, e.data.pdf)
          ELSE queryVectorStoreStart(h, e.data)
       /\ UNCHANGED <<posted, vectorstore>>

\* Variant of ListenerComplete: the listener posts nothing of its own.
ListenerCompleteSilent(h) ==
  /\ pc[h] = "returning"
  /\ pc' = [pc EXCEPT ![h] = "done"]
  /\ UNCHANGED <<inbox, posted, started, event, frame, vectorstore, outbox, trace>>

\* Variant of ListenerComplete: addDocuments is not awaited.
ListenerCompleteEarly(h) ==
  /\ pc[h] \in {"addDocuments", "returning"}
  /\ outbox' = Post(h, "complete", "OK", 190)
  /\ pc' = [pc EXCEPT ![h] = "done"]
  /\ UNCHANGED <<inbox, posted, started, event, frame, vectorstore, trace>>

\* The awaited flow has returned to the listener, which posts "complete".
ListenerComplete(h) ==
  /\ pc[h] = "returning"
  /\ outbox' = Post(h, "complete", "OK", 190)
  /\ pc' = [pc EXCEPT ![h] = "done"]
  /\ UNCHANGED <<inbox, posted, started, event, frame, vectorstore, trace>>

Next ==
  \/ HostPost
  \/ Dispatch
  \/ \E h \in Handlers :
       \/ GetDocumentReturn(h)
       \/ GetMetadataReturn(h)
       \/ GetPageReturn(h)
       \/ GetTextContentReturn(h)
       \/ SplitDocumentsReturn(h)
       \/ AddDocumentsReturn(h)
       \/ RephraseReturn(h)
       \/ RetrieveReturn(h)
       \/ StreamOpenReturn(h)
       \/ StreamYield(h)
       \/ StreamEnd(h)
       \/ StreamFail(h)
       \/ ListenerComplete(h)

Spec == Init /\ [][Next]_vars

\* --------------------------------------------- runs without failing calls
\* Handler h resumes from an external call that has returned, or from a
\* stream that has yielded or ended.
Resume(h) ==
  \/ GetDocumentReturn(h) /\ pc'[h] # "failed"
  \/ GetMetadataReturn(h)
  \/ GetPageReturn(h) /\ pc'[h] # "failed"
  \/ GetTextContentReturn(h) /\ pc'[h] # "failed"
  \/ SplitDocumentsReturn(h) /\ pc'[h] # "failed"
  \/ AddDocumentsReturn(h) /\ pc'[h] # "failed"
  \/ RephraseReturn(h) /\ pc'[h] # "failed"
  \/ RetrieveReturn(h) /\ pc'[h] # "failed"
  \/ StreamOpenReturn(h) /\ pc'[h] # "failed"
  \/ StreamYield(h)
  \/ StreamEnd(h)
  \/ ListenerComplete(h)

NextReturning ==
  \/ HostPost
  \/ Dispatch
  \/ \E h \in Handlers : Resume(h)

\* Every external call returns and every stream ends; the event loop delivers
\* every waiting message and resumes every handler whose call has returned.
LiveSpec ==
  /\ Init /\ [][NextReturning]_vars
  /\ WF_vars(Dispatch)
  /\ \A h \in Handlers : WF_vars(Resume(h))

\* ======================================================== properties
Range(s) == { s[k] : k \in 1..Len(s) }

\* The events handler h has posted, in order.
EventsOf(h) == LET Mine(e) == e.h = h IN SelectSeq(outbox, Mine)
OfType(s, type) == LET Is(e) == e.type = type IN SelectSeq(s, Is)
Types(s) == [k \in 1..Len(s) |-> s[k].type]
Data(s) == [k \in 1..Len(s) |-> s[k].data]
NonEmpty(fs) == LET Full(f) == f # "" IN SelectSeq(fs, Full)

Started(h) == h <= started
Failed(h) == trace[h].failedAt > 0
InFlight(h) == Started(h) /\ ~Failed(h) /\ pc[h] # "done"
QueryFlow(h) == Started(h) /\ trace[h].flow = "queryVectorStore"
IngestFlow(h) == Started(h) /\ trace[h].flow = "embedPDF"
CarriesMessages(h) == Started(h) /\ Has(event[h].data, "messages")
CarriesPdf(h) == Started(h) /\ Has(event[h].data, "pdf")

\* Zero or more "chunk" events, then "complete" events only (after the
\* "Received" log that opens every handler's events).
ChunksThenComplete(ev) ==
  \A a, b \in 1..Len(ev) :
    a < b => /\ ev[b].type # "log"
             /\ ev[a].type = "complete" => ev[b].type = "complete"

\* C1: a query invocation in which no step fails posts zero or more "chunk"
\* events and then exactly one "complete" event, also with an empty stream.
C1_OneCompletePerQuery ==
  \A h \in Handlers :
    (QueryFlow(h) /\ CarriesMessages(h) /\ pc[h] = "done")
      => /\ ChunksThenComplete(EventsOf(h))
         /\ Len(OfType(EventsOf(h), "complete")) = 1

\* C2: the "chunk" events of a query invocation are the non-empty fragments
\* the model stream has yielded, one event each, in the order yielded, and
\* none of them is posted after a "complete" event of the invocation.
C2_ChunksAreFragments ==
  \A h \in Handlers :
    QueryFlow(h)
      => /\ Data(OfType(EventsOf(h), "chunk")) = NonEmpty(trace[h].fragments)
         /\ \A a, b \in 1..Len(EventsOf(h)) :
              (a < b /\ EventsOf(h)[a].type = "complete") => EventsOf(h)[b].type # "chunk"

\* A finished query whose stream yielded an empty fragment and then a non-empty one.
C2_Witness ==
  \E h \in Handlers :
    /\ QueryFlow(h) /\ pc[h] = "done"
    /\ trace[h].fragments = <<"", "x">>
    /\ Data(OfType(EventsOf(h), "chunk")) = <<"x">>

PastRetrieval(h) == pc[h] \in {"openStream", "streaming", "returning", "done"}

\* C3: a query with a single message makes no rephrasing call, gives the
\* retriever exactly the content of that message, and its only model call is
\* the streaming generation call.
C3_EmptyHistoryUsesRawQuestion ==
  \A h \in Handlers :
    (QueryFlow(h) /\ CarriesMessages(h) /\ Len(event[h].data.messages) = 1)
      => /\ trace[h].rephraseInput = <<>>
         /\ trace[h].rephraseOutput = <<>>
         /\ trace[h].retrieverInput = <<event[h].data.messages[1].content>>
         /\ Len(trace[h].streamInput) <= 1
         /\ PastRetrieval(h) => Len(trace[h].streamInput) = 1

\* A finished single-message query.
C3_Witness ==
  \E h \in Handlers :
    /\ QueryFlow(h) /\ pc[h] = "done"
    /\ Len(event[h].data.messages) = 1
    /\ trace[h].retrieverInput = <<"q">>
    /\ Len(trace[h].streamInput) = 1

\* C4: a query with history makes exactly one rephrasing call, which has
\* returned before the retriever is called; the retriever is called exactly
\* once, with the output of the rephrasing call.
C4_HistoryRephrasesThenRetrieves ==
  \A h \in Handlers :
    (QueryFlow(h) /\ CarriesMessages(h) /\ Len(event[h].data.messages) >= 2)
      => /\ Len(trace[h].rephraseInput) = 1
         /\ Len(trace[h].retrieverInput) <= 1
         /\ Len(trace[h].retrieverInput) = Len(trace[h].rephraseOutput)
         /\ trace[h].retrieverInput = trace[h].rephraseOutput
         /\ pc[h] = "rephrase" => trace[h].retrieverInput = <<>>
         /\ PastRetrieval(h) => Len(trace[h].retrieverInput) = 1

\* A finished query with history whose rephrased question differs from the raw one.
C4_Witness ==
  \E h \in Handlers :
    /\ QueryFlow(h) /\ pc[h] = "done"
    /\ Len(event[h].data.messages) = 3
    /\ frame[h].text = "q"
    /\ trace[h].rephraseOutput = <<"r">>
    /\ trace[h].retrieverInput = <<"r">>

\* The chunks ingest h inserted are in the store where it put them.
Inserted(h) ==
  /\ Len(trace[h].inserted) = 1
  /\ LET at == trace[h].inserted[1]
     IN /\ at + Len(frame[h].docs) <= Len(vectorstore)
        /\ SubSeq(vectorstore, at + 1, at + Len(frame[h].docs)) = frame[h].docs

\* C5: an ingest in which no step fails posts one "log" event with the full
\* chunk list, then inserts those chunks, then posts exactly one "complete"
\* event; "complete" is never posted before the insertion has finished.
C5_IngestLogInsertComplete ==
  \A h \in Handlers :
    IngestFlow(h)
      => LET ev == EventsOf(h)
         IN /\ Len(OfType(ev, "complete")) <= 1
            /\ trace[h].insert <= 1
            /\ trace[h].insert = 1
                 => /\ Len(ev) >= 2
                    /\ ev[2].type = "log" /\ ev[2].line = 126
                    /\ ev[2].data = frame[h].docs
            /\ trace[h].inserted # <<>> => trace[h].insert = 1 /\ Inserted(h)
            /\ OfType(ev, "complete") # <<>> => Inserted(h)
            /\ pc[h] = "done" => /\ Types(ev) = <<"log", "log", "complete">>
                                 /\ Inserted(h)

\* A finished ingest of the three-page PDF, whose chunks are logged and stored.
C5_Witness ==
  \E h \in Handlers :
    /\ IngestFlow(h) /\ pc[h] = "done"
    /\ event[h].data.pdf = PdfA
    /\ Len(frame[h].docs) = 2
    /\ EventsOf(h)[2].data = frame[h].docs
    /\ frame[h].docs[1] \in Range(vectorstore)

\* C6 as stated: no two inbound messages are in flight at once.
C6_RunToCompletion ==
  \A g, h \in Handlers : (InFlight(g) /\ InFlight(h)) => g = h

\* C6 amended: messages enter the listener one at a time in the order they
\* arrived (the k-th "Received" log is that of the k-th message posted), while
\* a handler suspended at an await does not hold back the handlers of later
\* messages.
C6_ListenerEntryInArrivalOrder ==
  /\ \A h \in Handlers : Started(h) => event[h].seq = h
  /\ LET received == OfType(outbox, "log")
         entries == LET Entry(e) == e.line = 179 IN SelectSeq(received, Entry)
     IN /\ Len(entries) = started
        /\ \A k \in 1..Len(entries) : entries[k].h = k

\* Two handlers in flight together: the second has posted its "Received" log
\* after the first, which is still suspended.
C6_Witness ==
  /\ started = 2
  /\ InFlight(1) /\ InFlight(2)
  /\ pc[1] = "addDocuments" /\ pc[2] = "streaming"
  /\ Len(EventsOf(2)) >= 2

\* C7: after a step of an ingest or a query has failed, the operation posts
\* no "complete" event and no further event, and no event of a kind other
\* than "log", "chunk" and "complete" is ever posted.
C7_NothingAfterFailure ==
  /\ \A k \in 1..Len(outbox) : outbox[k].type \in {"log", "chunk", "complete"}
  /\ \A h \in Handlers :
       Failed(h)
         => /\ OfType(EventsOf(h), "complete") = <<>>
            /\ \A k \in 1..Len(outbox) : outbox[k].h = h => k <= trace[h].failedAt

\* A query whose stream failed after a fragment, with later events of another handler.
C7_Witness ==
  \E h \in Handlers :
    /\ Failed(h) /\ QueryFlow(h)
    /\ trace[h].fragments # <<>>
    /\ Len(outbox) > trace[h].failedAt

\* C8 as stated: a query invocation that fails has posted no "chunk" event.
C8_NoChunkOfFailedQuery ==
  \A h \in Handlers :
    (QueryFlow(h) /\ Failed(h)) => OfType(EventsOf(h), "chunk") = <<>>

\* C8 amended: a query invocation that fails before its stream has yielded a
\* non-empty fragment has posted no "chunk" event; one whose stream fails
\* later has posted one "chunk" event per non-empty fragment yielded before the
\* failure, and none after it.
C8_ChunksOfFailedQuery ==
  \A h \in Handlers :
    (QueryFlow(h) /\ Failed(h))
      => LET chunks == OfType(EventsOf(h), "chunk")
         IN /\ Len(chunks) = Len(NonEmpty(trace[h].fragments))
            /\ pc[h] = "failed"
            /\ trace[h].streamInput = <<>> => chunks = <<>>

\* A query whose stream failed after yielding one non-empty fragment.
C8_Witness ==
  \E h \in Handlers :
    /\ QueryFlow(h) /\ Failed(h)
    /\ trace[h].fragments = <<"x">>
    /\ Len(OfType(EventsOf(h), "chunk")) = 1

NoQueryCalls(h) ==
  /\ trace[h].rephraseInput = <<>>
  /\ trace[h].retrieverInput = <<>>
  /\ trace[h].streamInput = <<>>
  /\ OfType(EventsOf(h), "chunk") = <<>>

NoIngestCalls(h) ==
  /\ trace[h].parse = 0
  /\ trace[h].insert = 0
  /\ trace[h].inserted = <<>>

\* C9 as stated: a message carrying a pdf string runs only the ingest flow, a
\* message carrying messages runs only the query flow.
C9_PdfMeansIngest ==
  \A h \in Handlers :
    /\ CarriesPdf(h) => IngestFlow(h) /\ NoQueryCalls(h)
    /\ (CarriesMessages(h) /\ ~CarriesPdf(h)) => QueryFlow(h) /\ NoIngestCalls(h)

\* C9 amended: a message whose pdf is a non-empty string runs only the ingest
\* flow, also when it carries messages; every other message (pdf absent or
\* the empty string) runs only the query flow.
C9_NonEmptyPdfMeansIngest ==
  \A h \in Handlers :
    Started(h)
      => LET d == event[h].data
             nonEmptyPdf == "pdf" \in DOMAIN d /\ d.pdf # <<"">>
         IN /\ nonEmptyPdf => IngestFlow(h) /\ NoQueryCalls(h)
            /\ ~nonEmptyPdf => QueryFlow(h) /\ NoIngestCalls(h)

\* A finished ingest of a message that also carried messages, and a finished
\* query of a message that carried an empty pdf string.
C9_Witness ==
  \E g, h \in Handlers :
    /\ pc[g] = "done" /\ pc[h] = "done"
    /\ event[g].data = [pdf |-> PdfB, messages |-> <<Human("q")>>]
    /\ event[h].data = [pdf |-> EmptyString, messages |-> <<Human("q")>>]
    /\ IngestFlow(g) /\ QueryFlow(h)

\* C10: every document in the context of a query was in the vector store when
\* the retrieval ran (and still is); chunks of an ingest in flight that are
\* not inserted yet are never part of it.
C10_ContextFromStore ==
  \A h \in Handlers :
    trace[h].retrieved # <<>>
      => /\ Range(trace[h].retrieved[1]) \subseteq Range(trace[h].storeAtRetrieval)
         /\ Range(trace[h].retrieved[1]) \subseteq Range(vectorstore)
         /\ Len(trace[h].retrieved[1]) <= Len(trace[h].storeAtRetrieval)

\* A query that retrieved a chunk of an ingest that is still in flight (its
\* listener has not posted "complete" yet).
C10_Witness ==
  /\ IngestFlow(1) /\ pc[1] = "returning"
  /\ QueryFlow(2) /\ trace[2].retrieved # <<>>
  /\ trace[2].retrieved[1] = frame[1].docs
  /\ Len(frame[1].docs) = 2

\* The per-page documents of a PDF from page k on, written out from its pages:
\* one for each page that has text items, numbered from 1.
RECURSIVE PagesFrom(_, _, _)
PagesFrom(pages, k, meta) ==
  IF k > Len(pages) THEN <<>>
  ELSE (IF pages[k] = <<>> THEN <<>>
        ELSE << [ pageContent |-> Join(pages[k], "\n"),
                  metadata |-> [ pdf |-> [ version |-> "1.10.100",
                                           info |-> IF meta = "null" THEN "undefined" ELSE "info",
                                           metadata |-> IF meta = "null" THEN "undefined"
                                                        ELSE "metadata",
                                           totalPages |-> Len(pages) ],
                                 loc |-> [ pageNumber |-> k ] ] ] >>)
       \o PagesFrom(pages, k + 1, meta)

\* The chunks of the PDF of ingest h (every page text of the model fits in one chunk).
ChunksOf(h) == PagesFrom(PdfPages(event[h].data.pdf[2]), 1, frame[h].meta)

C11_Step ==
  /\ Len(vectorstore') >= Len(vectorstore)
  /\ SubSeq(vectorstore', 1, Len(vectorstore)) = vectorstore
  /\ vectorstore' # vectorstore
       => \E h \in Handlers :
            /\ IngestFlow(h)
            /\ pc[h] = "addDocuments" /\ pc'[h] = "returning"
            /\ vectorstore' = vectorstore \o ChunksOf(h)
  /\ \A h \in Handlers :
       (trace'[h].flow = "queryVectorStore" /\ <<pc'[h], trace'[h]>> # <<pc[h], trace[h]>>)
         => vectorstore' = vectorstore

\* C11: the vector store is append-only: no step removes or changes an entry,
\* a successful ingest only appends the chunks of its PDF, and no step of a
\* query operation, successful or failed, changes the store.
C11_AppendOnly == [][C11_Step]_vars

\* The chunks of a second ingest stand after those of the first.
C11_Witness ==
  /\ IngestFlow(1) /\ IngestFlow(2)
  /\ event[1].data.pdf = PdfB /\ event[2].data.pdf = PdfA
  /\ Len(vectorstore) = 4
  /\ vectorstore = frame[2].docs \o frame[1].docs

\* The phase of a query invocation: 1 retrieving, 2 generating/streaming,
\* 3 complete.
Phase(p) ==
  CASE p \in {"rephrase", "retrieve"} -> 1
    [] p \in {"openStream", "streaming"} -> 2
    [] p \in {"returning", "done"} -> 3
    [] OTHER -> 0

C12_State ==
  \A h \in Handlers :
    QueryFlow(h)
      => /\ Phase(pc[h]) = 1
              => /\ trace[h].streamInput = <<>>
                 /\ trace[h].fragments = <<>>
                 /\ Len(EventsOf(h)) = 1
         /\ trace[h].streamInput # <<>>
              => /\ Len(trace[h].retrieved) = 1
                 /\ Len(trace[h].streamInput) = 1
                 /\ trace[h].streamInput[1].context = frame[h].formattedDocs
         /\ OfType(EventsOf(h), "chunk") # <<>> => trace[h].streamInput # <<>>

C12_Step ==
  \A h \in Handlers :
    (trace'[h].flow = "queryVectorStore" /\ pc'[h] # "failed")
      => /\ Phase(pc'[h]) >= Phase(pc[h])
         /\ Phase(pc'[h]) <= Phase(pc[h]) + 1

\* C12: a query invocation goes from retrieving to generating/streaming to
\* complete and never back: the streaming call is made only once the
\* retrieval chain has returned the context, and no "chunk" event is posted
\* while the invocation is retrieving.
C12_LinearPhases == []C12_State /\ [][C12_Step]_vars

\* A query with history that is streaming after its rephrasing and retrieval.
C12_Witness ==
  \E h \in Handlers :
    /\ QueryFlow(h) /\ pc[h] = "streaming"
    /\ Len(trace[h].rephraseOutput) = 1
    /\ Len(trace[h].retrieved) = 1
    /\ OfType(EventsOf(h), "chunk") # <<>>

Extracting == {"getDocument", "getMetadata", "getPage", "getTextContent"}

\* The ingest failed in the PDF parse or in the extraction of a page.
ExtractionFailed(h) ==
  /\ IngestFlow(h) /\ Failed(h)
  /\ trace[h].failedIn \in {"entry", "getDocument", "getPage", "getTextContent"}

C13_State ==
  \A h \in Handlers :
    /\ trace[h].parse <= 1
    /\ ExtractionFailed(h)
         => /\ pc[h] = "failed"
            /\ trace[h].insert = 0
            /\ trace[h].inserted = <<>>
            /\ Len(EventsOf(h)) = 1
            /\ EventsOf(h)[1].line = 179

\* No step of an ingest that is still parsing or extracting pages, its
\* failure included, changes the store.
C13_Step ==
  \A h \in Handlers :
    (pc[h] \in Extracting /\ pc'[h] # pc[h]) => vectorstore' = vectorstore

\* C13: when the PDF parse or the text extraction of a page fails, the store
\* gets no chunk of that PDF (not of pages extracted before the failure
\* either), no chunk-list "log" event is posted, and the parse is not retried.
C13_FailedExtractionStoresNothing == []C13_State /\ [][C13_Step]_vars

\* An ingest that failed on its third page, after two pages were extracted,
\* while the store holds the chunk of another ingest only.
C13_Witness ==
  \E g, h \in Handlers :
    /\ ExtractionFailed(h)
    /\ trace[h].failedIn \in {"getPage", "getTextContent"}
    /\ frame[h].i = 3 /\ Len(frame[h].documents) = 1
    /\ IngestFlow(g) /\ pc[g] = "done"
    /\ vectorstore = frame[g].docs

PageLoopOver(h) == pc[h] \in {"splitDocuments", "addDocuments", "returning", "done"}
Contents(ds) == [k \in 1..Len(ds) |-> ds[k].pageContent]

\* C14: a failure of getMetadata does not abort the ingest: the metadata is
\* absent, every page is still extracted, and the chunks are logged, inserted
\* and followed by "complete" as they are when getMetadata succeeds.
C14_MetadataFailureTolerated ==
  \A h \in Handlers :
    /\ trace[h].failedIn # "getMetadata"
    /\ (IngestFlow(h) /\ frame[h].meta = "null")
         => LET pages == PdfPages(event[h].data.pdf[2])
            IN /\ PageLoopOver(h)
                    => /\ frame[h].i = Len(pages) + 1
                       /\ frame[h].documents = PagesFrom(pages, 1, "null")
                       /\ Contents(frame[h].documents) = Contents(PagesFrom(pages, 1, "meta"))
               /\ \A k \in 1..Len(frame[h].documents) :
                    /\ frame[h].documents[k].metadata.pdf.info = "undefined"
                    /\ frame[h].documents[k].metadata.pdf.metadata = "undefined"
               /\ pc[h] = "done"
                    => /\ Types(EventsOf(h)) = <<"log", "log", "complete">>
                       /\ EventsOf(h)[2].data = PagesFrom(pages, 1, "null")
                       /\ Inserted(h)

\* A finished ingest of the three-page PDF whose metadata extraction failed.
C14_Witness ==
  \E h \in Handlers :
    /\ IngestFlow(h) /\ pc[h] = "done"
    /\ frame[h].meta = "null"
    /\ event[h].data.pdf = PdfA
    /\ Len(frame[h].docs) = 2
    /\ Inserted(h)

\* The pages among the first n that have text items.
WithItems(pages, n) == { k \in 1..n : pages[k] # <<>> }

\* The pages among the first n whose text is not empty.
WithText(pages, n) == { k \in 1..n : Join(pages[k], "\n") # "" }

\* C15 as stated: when the page loop is over, there is exactly one document
\* per page that has non-empty text and none for a page without.
C15_OneDocumentPerTextPage ==
  \A h \in Handlers :
    (IngestFlow(h) /\ PageLoopOver(h))
      => LET pages == frame[h].parsedPdf
             documents == frame[h].documents
         IN /\ Len(documents) = Cardinality(WithText(pages, Len(pages)))
            /\ \A j \in 1..Len(documents) : documents[j].pageContent # ""

\* C15 amended: before splitting, ingest has built exactly one document per
\* page that has at least one text item (also when the items' text is empty)
\* and none for a page without items, in increasing page order, each with the
\* 1-based number of its page and the page count of the PDF.
C15_OneDocumentPerPageWithItems ==
  \A h \in Handlers :
    (IngestFlow(h) /\ frame[h].i >= 1)
      => LET pages == frame[h].parsedPdf
             documents == frame[h].documents
             page(j) == documents[j].metadata.loc.pageNumber
         IN /\ pages = PdfPages(event[h].data.pdf[2])
            /\ frame[h].i <= Len(pages) + 1
            /\ Len(documents) = Cardinality(WithItems(pages, frame[h].i - 1))
            /\ \A j \in 1..Len(documents) :
                 /\ page(j) \in WithItems(pages, frame[h].i - 1)
                 /\ documents[j].pageContent = Join(pages[page(j)], "\n")
                 /\ documents[j].metadata.pdf.totalPages = Len(pages)
            /\ \A j, k \in 1..Len(documents) : j < k => page(j) < page(k)
            /\ PageLoopOver(h)
                 => Len(documents) = Cardinality(WithItems(pages, Len(pages)))

\* The three-page PDF with an item-less second page has given two documents,
\* of pages 1 and 3.
C15_Witness ==
  \E h \in Handlers :
    /\ IngestFlow(h) /\ pc[h] = "splitDocuments"
    /\ Len(frame[h].parsedPdf) = 3
    /\ Len(frame[h].documents) = 2
    /\ frame[h].documents[1].metadata.loc.pageNumber = 1
    /\ frame[h].documents[2].metadata.loc.pageNumber = 3
    /\ frame[h].documents[2].metadata.pdf.totalPages = 3
    /\ frame[h].documents[1].pageContent = "a\nb"

\* The documents ds from position k on, each in a tag numbered one less than
\* its position, with a newline between two tags.
RECURSIVE Tagged(_, _)
Tagged(ds, k) ==
  IF k > Len(ds) THEN ""
  ELSE "<doc id='" \o ToString(k - 1) \o "'>" \o ds[k].pageContent \o "</doc>"
         \o (IF k < Len(ds) THEN "\n" ELSE "") \o Tagged(ds, k + 1)

\* C16: the context string of a query is the retrieved documents in retrieval
\* order, each wrapped in a tag numbered with its 0-based position, joined by
\* newlines; an empty result gives the empty context and the query goes on to
\* generation.
C16_ContextIsTaggedDocuments ==
  \A h \in Handlers :
    trace[h].retrieved # <<>>
      => LET found == trace[h].retrieved[1]
         IN /\ frame[h].formattedDocs = Tagged(found, 1)
            /\ Len(trace[h].streamInput) = 1
            /\ trace[h].streamInput[1].context = Tagged(found, 1)
            /\ found = <<>> => trace[h].streamInput[1].context = ""
            /\ Failed(h) \/ Phase(pc[h]) >= 2

\* A query whose retrieval gave the two chunks of the three-page PDF in the
\* reverse of their order in the store.
C16_Witness ==
  \E h \in Handlers :
    /\ QueryFlow(h) /\ pc[h] = "done"
    /\ Len(trace[h].retrieved[1]) = 2
    /\ trace[h].retrieved[1][1] = vectorstore[2]
    /\ trace[h].retrieved[1][2] = vectorstore[1]
    /\ frame[h].formattedDocs = "<doc id='0'>d</doc>\n<doc id='1'>a\nb</doc>"

\* The position in outbox of the first event of handler h (0 if it has none).
FirstEventAt(h) ==
  IF EventsOf(h) = <<>> THEN 0
  ELSE CHOOSE k \in 1..Len(outbox) :
         outbox[k].h = h /\ \A j \in 1..(k - 1) : outbox[j].h # h

\* C17: the first event a handler posts is the "log" event echoing the
\* received message; it precedes every PDF parse, store call, model call,
\* "chunk" and "complete" event of the message, whether the message later
\* succeeds or fails.
C17_ReceivedLogFirst ==
  \A h \in Handlers :
    /\ ~Started(h) => EventsOf(h) = <<>> /\ trace[h] = NoTrace /\ pc[h] = "idle"
    /\ Started(h)
         => LET ev == EventsOf(h)
            IN /\ Len(ev) >= 1
               /\ ev[1].type = "log" /\ ev[1].line = 179
               /\ ev[1].data = "Received: " \o Stringify(event[h].data)
               /\ \A k \in 2..Len(ev) : ev[k].line # 179
               /\ Failed(h) => trace[h].failedAt >= FirstEventAt(h)

\* A query that failed on entry and a finished ingest: both have posted the
\* echo of their message first.
C17_Witness ==
  \E g, h \in Handlers :
    /\ QueryFlow(g) /\ Failed(g) /\ trace[g].failedIn = "entry"
    /\ EventsOf(g) = << [ type |-> "log", h |-> g, line |-> 179,
                          data |-> "Received: {\"messages\":[]}" ] >>
    /\ IngestFlow(h) /\ pc[h] = "done"
    /\ EventsOf(h)[1].data
         = "Received: {\"pdf\":\"data:application/pdf;base64,B\",\"messages\":[{\"role\":\"human\",\"content\":\"q\"}]}"

\* The message of handler h has no non-empty pdf and no question.
Questionless(h) ==
  LET d == event[h].data
  IN /\ Started(h)
     /\ "pdf" \notin DOMAIN d \/ d.pdf = <<"">>
     /\ "messages" \notin DOMAIN d \/ d.messages = <<>>

\* C18: a message without a truthy pdf whose messages is absent or empty goes
\* to the query flow and fails before any retriever or model call: it posts
\* the "Received" log and then no "chunk" and no "complete" event, and adds
\* nothing to the store.
C18_QuestionlessQueryFails ==
  \A h \in Handlers :
    Questionless(h)
      => /\ QueryFlow(h)
         /\ pc[h] = "failed" /\ Failed(h) /\ trace[h].failedIn = "entry"
         /\ NoQueryCalls(h) /\ NoIngestCalls(h)
         /\ trace[h].retrieved = <<>> /\ trace[h].fragments = <<>>
         /\ Len(EventsOf(h)) = 1
         /\ EventsOf(h)[1].type = "log" /\ EventsOf(h)[1].line = 179

\* A message with an empty pdf string and no messages, and one with an empty
\* messages sequence, have both failed on entry of the query flow.
C18_Witness ==
  \E g, h \in Handlers :
    /\ event[g].data = [pdf |-> EmptyString]
    /\ event[h].data = [messages |-> <<>>]
    /\ Questionless(g) /\ Questionless(h)
    /\ pc[g] = "failed" /\ pc[h] = "failed"
    /\ Len(outbox) = 2

MsgIds == 1..MaxMsgs

\* The data of the s-th message posted, waiting or delivered.
MessageOf(s) ==
  IF \E h \in Handlers : Started(h) /\ event[h].seq = s
  THEN event[CHOOSE h \in Handlers : Started(h) /\ event[h].seq = s].data
  ELSE inbox[CHOOSE k \in 1..Len(inbox) : inbox[k].seq = s].data

\* The handler of the s-th message has posted a "complete" event.
Completed(s) ==
  \E h \in Handlers :
    /\ Started(h) /\ event[h].seq = s
    /\ OfType(EventsOf(h), "complete") # <<>>

\* A data URL with a payload, or else a non-empty message sequence.
WellFormed(d) ==
  IF "pdf" \in DOMAIN d /\ d.pdf # <<"">>
  THEN Len(d.pdf) >= 2
  ELSE "messages" \in DOMAIN d /\ d.messages # <<>>

Quiescent ==
  /\ inbox = <<>>
  /\ \A h \in Handlers : Started(h) => pc[h] \in {"done", "failed"}

\* C19 as stated: when no external call fails and every stream ends, every
\* inbound message is eventually followed by a "complete" event of its handler.
C19_EveryMessageCompletes ==
  \A s \in MsgIds : (posted >= s) ~> Completed(s)

\* C19 amended: when no external call fails and every stream ends, every
\* inbound message that is well formed (a pdf data URL with a payload, or a
\* non-empty messages sequence without a truthy pdf) is eventually followed by
\* a "complete" event of its own handler, in any interleaving; once all
\* handlers have ended, there are at least as many "complete" events as
\* well-formed messages.
C19_WellFormedMessageCompletes ==
  /\ \A s \in MsgIds : (posted >= s /\ WellFormed(MessageOf(s))) ~> Completed(s)
  /\ [](Quiescent
          => /\ \A s \in 1..posted : WellFormed(MessageOf(s)) => Completed(s)
             /\ Len(OfType(outbox, "complete"))
                  >= Cardinality({ s \in 1..posted : WellFormed(MessageOf(s)) }))

\* An ingest and a query were in flight together; the query, delivered second,
\* completed first, and the ingest completed after it.
C19_Witness ==
  /\ IngestFlow(1) /\ QueryFlow(2)
  /\ pc[1] = "done" /\ pc[2] = "done"
  /\ \E j, k \in 1..Len(outbox) :
       /\ j < k
       /\ outbox[j].h = 2 /\ outbox[j].line = 190
       /\ outbox[k].h = 1 /\ outbox[k].line = 190
       /\ FirstEventAt(2) < j
       /\ \E m \in FirstEventAt(2)..j : outbox[m].h = 1 /\ outbox[m].line = 126
====
